---- MODULE Spec2Model ----
(***************************************************************************)
(* The parser-combinator engine of pal (src/parser): the error model, the  *)
(* parser core and the lexical primitives.  A Parser<T> is a closure over  *)
(* the combinators that built it, so a parser is represented here by the   *)
(* term that built it and `parse` runs the closure of that term.           *)
(***************************************************************************)
EXTENDS Integers, Sequences, FiniteSets, TLC

\* Longest input string handed to a parser.
MaxLen == 3

\* Longest sequence of parsers handed to alt.
MaxAlt == 2

\* Deepest nesting of producer invocations (Parser::lazy) a parse may reach
\* before the call stack is exhausted: deep enough for every repetition that
\* consumes input, so that only a repetition consuming nothing reaches it.
MaxDepth == MaxLen + 3

----------------------------------------------------------------------------
(* Characters and strings.  A String is a sequence of one-character         *)
(* strings; chars are ordered by code point.                                *)

Lower == <<"a", "b", "c", "d", "e", "f", "g", "h", "i", "j", "k", "l", "m",
           "n", "o", "p", "q", "r", "s", "t", "u", "v", "w", "x", "y", "z">>
Upper == <<"A", "B", "C", "D", "E", "F", "G", "H", "I", "J", "K", "L", "M",
           "N", "O", "P", "Q", "R", "S", "T", "U", "V", "W", "X", "Y", "Z">>
Digits == <<"0", "1", "2", "3", "4", "5", "6", "7", "8", "9">>

Range(seq) == {seq[i] : i \in DOMAIN seq}

IndexOf(seq, x) == CHOOSE i \in DOMAIN seq : seq[i] = x

\* The code point of a char (the order of `char` in Rust).
CodePoint(c) ==
    CASE c \in Range(Lower) -> 96 + IndexOf(Lower, c)
      [] c \in Range(Upper) -> 64 + IndexOf(Upper, c)
      [] c \in Range(Digits) -> 47 + IndexOf(Digits, c)
      [] c = "\t" -> 9
      [] c = "\n" -> 10
      [] c = "\r" -> 13
      [] c = " " -> 32
      [] c = "!" -> 33
      [] c = "\"" -> 34
      [] c = "(" -> 40
      [] c = ")" -> 41
      [] c = "*" -> 42
      [] c = "," -> 44
      [] c = "-" -> 45
      [] c = ":" -> 58
      [] c = ";" -> 59
      [] c = ">" -> 62
      [] c = "_" -> 95
      [] c = "{" -> 123
      [] c = "}" -> 125

\* Option<T>: None is <<>>, Some(x) is <<x>>.
None == <<>>
Some(x) == <<x>>

\* Every string over the alphabet A of length at most n.
Strings(A, n) == UNION {[1..k -> A] : k \in 0..n}

----------------------------------------------------------------------------
(* ParseError (src/parser/error.rs) and its derived order.                  *)

Unit == [t |-> "Unit"]
CharacterMismatch(expected, found) ==
    [t |-> "CharacterMismatch", expected |-> expected, found |-> found]

\* Ordering of Option<char>: None below Some, Some by code point.
\* The result is -1 (Less), 0 (Equal) or 1 (Greater).
OptionCmp(a, b) ==
    IF a = None /\ b = None THEN 0
    ELSE IF a = None THEN -1
    ELSE IF b = None THEN 1
    ELSE IF CodePoint(a[1]) < CodePoint(b[1]) THEN -1
    ELSE IF CodePoint(a[1]) > CodePoint(b[1]) THEN 1
    ELSE 0

\* #[derive(PartialOrd, Ord)] on ParseError: by variant in declaration
\* order, then by the fields in declaration order.
ErrorCmp(a, b) ==
    IF a.t = "Unit" /\ b.t = "Unit" THEN 0
    ELSE IF a.t = "Unit" THEN -1
    ELSE IF b.t = "Unit" THEN 1
    ELSE IF OptionCmp(a.expected, b.expected) # 0
         THEN OptionCmp(a.expected, b.expected)
    ELSE OptionCmp(a.found, b.found)

\* A choice of error that ignores the order: the last one.
ErrorLast(a, b) == b

\* A choice of error that ignores the order: the first one.
ErrorFirst(a, b) == a

\* Ord::max: the second argument unless the first is strictly greater.
ErrorMax(a, b) == IF ErrorCmp(a, b) = 1 THEN a ELSE b

----------------------------------------------------------------------------
(* Values parsers produce, tagged by their Rust type.                       *)

VUnit == <<"unit">>
VChar(c) == <<"char", c>>
VPair(a, b) == <<"pair", a, b>>
VVec(xs) == <<"vec", xs>>
VNone == <<"none">>
VSome(x) == <<"some", x>>
VString(s) == <<"string", s>>

\* Result<(T, String), ParseError>.
Ok(value, rest) == [t |-> "Ok", value |-> value, rest |-> rest]
Err(e) == [t |-> "Err", err |-> e]

IsOk(r) == r.t = "Ok"
IsErr(r) == r.t = "Err"

\* head.into_iter().chain(rest.into_iter()).collect(): an Option and a Vec.
IntoVec(head, rest) ==
    VVec((IF head[1] = "none" THEN <<>> ELSE <<head[2]>>) \o rest[2])

\* u64::MAX in decimal.
U64Max == <<"1", "8", "4", "4", "6", "7", "4", "4", "0", "7",
            "3", "7", "0", "9", "5", "5", "1", "6", "1", "5">>

\* A decimal numeral without its leading zeros; the value of a u64 is kept
\* as this numeral.
RECURSIVE Numeral(_)
Numeral(ds) ==
    IF Len(ds) > 1 /\ Head(ds) = "0" THEN Numeral(Tail(ds)) ELSE ds

\* str::parse::<u64>: an error on the empty string and above u64::MAX.
ParseU64(ds) ==
    LET n == Numeral(ds)
        Above == /\ Len(n) = Len(U64Max)
                 /\ \E i \in DOMAIN n :
                        /\ \A j \in 1..(i - 1) : n[j] = U64Max[j]
                        /\ CodePoint(n[i]) > CodePoint(U64Max[i])
    IN  IF ds = <<>> \/ Len(n) > Len(U64Max) \/ Above
        THEN <<"Err">>
        ELSE <<"Ok", <<"u64", n>>>>

\* The names handed to module().
ModuleNames == {"m", "pal"}

\* The functions handed to Parser::map, by name.  `qualify` (src/spec/mod.rs)
\* is not defined in src/parser; it is taken as the conversion its callers
\* need, from the Vec<char> of many() to a String.  The closure of module()
\* is named by the module name it captured.
Apply(f, x) ==
    CASE f = "fst" -> x[2]
      [] f = "snd" -> x[3]
      [] f = "Some" -> VSome(x)
      [] f = "cons" -> VVec(<<x[2]>> \o x[3][2])
      [] f = "collect" -> VString(<<x[2][2]>> \o [i \in DOMAIN x[3][2] |-> x[3][2][i][2]])
      [] f = "concat" -> VString(<<x[2][2]>> \o x[3][2])
      [] f = "Atomic" -> <<"Atomic", x>>
      [] f = "Pointer" -> <<"Pointer", x>>
      [] f = "id" -> x
      [] f = "qualify" -> VString([i \in DOMAIN x[2] |-> x[2][i][2]])
      [] f = "parse_u64" -> ParseU64(x[2])
      [] f = "StringLiteral" -> <<"StringLiteral", x>>
      [] f = "NumericLiteral" -> <<"NumericLiteral", x>>
      [] f = "Return" -> <<"Return", x>>
      [] f = "FunctionCall" -> <<"FunctionCall", x[2], IntoVec(x[3][2], x[3][3])>>
      [] f = "arguments" -> IntoVec(x[2], x[3])
      [] f = "ExternFunctionDefinition" ->
             <<"ExternFunctionDefinition", x[2][2], x[2][3], x[3]>>
      [] f = "FunctionDeclaration" ->
             <<"FunctionDeclaration", x[2][2][2], x[2][2][3], x[2][3], x[3]>>
      [] f \in ModuleNames -> <<"Module", f, x[2]>>

----------------------------------------------------------------------------
(* Parser constructors (src/parser/mod.rs, src/parser/generators.rs).       *)

char(allowed) == [k |-> "char", c |-> allowed]
pure(value) == [k |-> "pure", v |-> value]
empty(value) == [k |-> "empty", e |-> value]
lazy(producer) == [k |-> "lazy", producer |-> producer]
map(self, f) == [k |-> "map", self |-> self, f |-> f]
chain(self, other) == [k |-> "chain", self |-> self, other |-> other]
or(self, other) == [k |-> "or", self |-> self, other |-> other]

left(self, other) == map(chain(self, other), "fst")
right(self, other) == map(chain(self, other), "snd")
maybe(self) == or(map(self, "Some"), pure(VNone))

\* A many whose last repetition fails instead of yielding the empty vector.
many_without_base(self) ==
    or(map(chain(self, lazy([f |-> "many", self |-> self])), "cons"),
       empty(Unit))

\* A many that prefers the empty vector to a repetition.
many_reluctant(self) ==
    or(pure(VVec(<<>>)),
       map(chain(self, lazy([f |-> "many", self |-> self])), "cons"))

\* A many that stops after one repetition instead of calling itself.
many_once(self) ==
    or(map(chain(self, pure(VVec(<<>>))), "cons"), pure(VVec(<<>>)))

\* The closure `move || self.clone().many()` is the producer named "many".
many(self) ==
    or(map(chain(self, lazy([f |-> "many", self |-> self])), "cons"),
       pure(VVec(<<>>)))

\* A some that does not insist on the first occurrence.
some_optional(self) ==
    or(map(chain(self, many(self)), "cons"), pure(VVec(<<>>)))

some(self) == map(chain(self, many(self)), "cons")

\* An alt that folds from the other end, so that the last parser is tried first.
RECURSIVE alt_reversed(_)
alt_reversed(allowed) ==
    IF allowed # <<>> THEN or(alt_reversed(Tail(allowed)), Head(allowed))
    ELSE empty(Unit)

RECURSIVE alt(_)
alt(allowed) ==
    IF allowed # <<>> THEN or(Head(allowed), alt(Tail(allowed)))
    ELSE empty(Unit)

list(allowed) == alt([i \in DOMAIN allowed |-> char(allowed[i])])

between(a, b, c) == left(right(a, b), c)
whitespace == list(<<" ", "\n", "\t", "\r">>)

\* A strip that leaves the whitespace after p in the remainder.
strip_leading(p) == right(many(whitespace), p)

strip(p) == between(many(whitespace), p, many(whitespace))
lowercase == list(Lower)
uppercase == list(Upper)
other == list(<<"_">>)
letter == or(or(lowercase, uppercase), other)
digit == list(Digits)
alphanum == or(letter, digit)

\* An identifier that takes letters only after the first.
identifier_letters == map(strip(chain(letter, many(letter))), "collect")

identifier == map(strip(chain(letter, many(alphanum))), "collect")

RECURSIVE string(_)
string(input) ==
    IF input # <<>> THEN map(chain(char(Head(input)), string(Tail(input))), "concat")
    ELSE pure(VString(<<>>))

symbol(input) == strip(string(input))

\* The grammar rules for types (src/spec/mod.rs): typ() is lazy because
\* pointer() calls typ().
typ == lazy([f |-> "typ"])
atomic == map(identifier, "Atomic")
pointer == map(map(right(symbol(<<"*">>), typ), "id"), "Pointer")

\* The rest of the grammar (src/spec/mod.rs).
str_literal ==
    between(symbol(<<"\"">>),
            map(map(many(alphanum), "qualify"), "StringLiteral"),
            symbol(<<"\"">>))

\* The parser num_literal's closure runs: digit().many().qualify().map(parse).
num_literal_digits == map(map(many(digit), "qualify"), "parse_u64")

\* Parser::new(closure) of num_literal().
num_literal == map([k |-> "num_literal"], "NumericLiteral")

expression == or(str_literal, num_literal)

function_call ==
    map(chain(identifier,
              between(symbol(<<"(">>),
                      chain(maybe(expression),
                            many(right(symbol(<<",">>), expression))),
                      symbol(<<")">>))),
        "FunctionCall")

\* ret() of src/spec/mod.rs.
ret_statement ==
    map(right(symbol(<<"r", "e", "t", "u", "r", "n">>), expression), "Return")

statement == left(or(function_call, ret_statement), symbol(<<";">>))

argument == chain(left(identifier, symbol(<<":">>)), typ)

argument_parser ==
    map(left(chain(maybe(argument), many(right(symbol(<<",">>), argument))),
             maybe(symbol(<<",">>))),
        "arguments")

extern_function_definition ==
    map(chain(left(chain(right(chain(symbol(<<"e", "x", "t">>), symbol(<<"f", "n">>)),
                               identifier),
                         between(symbol(<<"(">>), argument_parser, symbol(<<")">>))),
                   symbol(<<"-", ">">>)),
              typ),
        "ExternFunctionDefinition")

function_declaration ==
    map(chain(chain(left(chain(right(symbol(<<"f", "n">>), identifier),
                               between(symbol(<<"(">>), argument_parser,
                                       symbol(<<")">>))),
                         symbol(<<"-", ">">>)),
                    typ),
              between(symbol(<<"{">>), many(statement), symbol(<<"}">>))),
        "FunctionDeclaration")

item == or(extern_function_definition, function_declaration)

module(name) == map(many(left(item, symbol(<<";">>))), name)

\* Invoking a producer: the parser the closure handed to Parser::lazy builds.
Produce(producer) ==
    CASE producer.f = "many" -> many(producer.self)
      [] producer.f = "typ" -> or(atomic, pointer)
      [] producer.f = "const" -> producer.self


----------------------------------------------------------------------------
(* What each closure computes from its own arguments.                       *)

\* A char that does not report what it found.
run_char_blind(allowed, input) ==
    IF input # <<>> /\ Head(input) = allowed
    THEN Ok(VChar(Head(input)), Tail(input))
    ELSE Err(CharacterMismatch(Some(allowed), None))

\* The closure of char (generators.rs): match on chars.next().
run_char(allowed, input) ==
    IF input # <<>> /\ Head(input) = allowed
    THEN Ok(VChar(Head(input)), Tail(input))
    ELSE Err(CharacterMismatch(Some(allowed),
                               IF input = <<>> THEN None ELSE Some(Head(input))))

\* A pure that drops the char it is looking at.
run_pure_consuming(value, input) ==
    Ok(value, IF input = <<>> THEN input ELSE Tail(input))

\* The closure of pure: Ok((value.clone(), input)).
run_pure(value, input) == Ok(value, input)

\* The closure of empty: Err(value.clone()).
run_empty(value, input) == Err(value)

\* map: self.parse(input).map(|(result, input)| (f(result), input)).
map_result(f, r) == IF IsOk(r) THEN Ok(Apply(f, r.value), r.rest) ELSE r

\* A chain that runs other on the input self was given.
chain_input_same(input, ra) == input

\* chain: the input `other` is run on, the one self's success returned.
chain_input(input, ra) == ra.rest

\* chain: other.parse(input).map(|(result_b, input)| ((result_a, result_b), input)).
chain_result(result_a, rb) ==
    IF IsOk(rb) THEN Ok(VPair(result_a, rb.value), rb.rest) ELSE rb

\* An or that runs other past the first char self looked at.
or_input_advanced(input, ra) == IF input = <<>> THEN input ELSE Tail(input)

\* or: the input `other` is run on, the clone of the one `self` was given.
or_input(input, ra) == input

\* or: other.parse(input).map_err(|parse_error_b| parse_error_a.max(parse_error_b)).
or_result(parse_error_a, rb) ==
    IF IsErr(rb) THEN Err(ErrorMax(parse_error_a, rb.err)) ELSE rb

\* num_literal: Ok((Ok(num), remaining)) => Ok((num, remaining)), and
\* everything else => Err(ParseError::Unit).
num_literal_result(r) ==
    IF IsOk(r) /\ r.value[1] = "Ok" THEN Ok(r.value[2], r.rest) ELSE Err(Unit)

----------------------------------------------------------------------------
(* The calls made on the engine.  A call is a parser built by one of the    *)
(* constructors and the input it is run on; `watch` lists the parsers the   *)
(* call was built from, whose own runs inside the call are recorded.        *)

ABC == {"a", "b", "c"}
AB == {"a", "b"}
TypChars == {"a", "*"}

Errors ==
    {Unit, CharacterMismatch(None, None), CharacterMismatch(None, Some("c")),
     CharacterMismatch(Some("b"), Some("a")), CharacterMismatch(Some("c"), None)}

\* Parser<char>.
CharParsers ==
    {char(c) : c \in AB} \cup {pure(VChar("c"))} \cup {empty(e) : e \in Errors}

\* Parser<(char, char)>.
PairParsers ==
    {chain(char("a"), char("b")), chain(char("a"), char("c")),
     chain(char("b"), pure(VChar("c"))), chain(pure(VChar("c")), char("a"))}

Call(op, p, watch, input) == [op |-> op, p |-> p, watch |-> watch, input |-> input]

CharCalls ==
    {Call("char", char(c), <<>>, s) : c \in ABC, s \in Strings(ABC, MaxLen)}

OrCalls ==
    {Call("or", or(a, b), <<a, b>>, s) :
        a \in CharParsers, b \in CharParsers, s \in Strings(ABC, MaxLen)}
    \cup
    {Call("or", or(a, b), <<a, b>>, s) :
        a \in PairParsers, b \in PairParsers, s \in Strings(ABC, MaxLen)}

ChainCalls ==
    {Call("chain", chain(a, b), <<a, b>>, s) :
        a \in CharParsers, b \in CharParsers, s \in Strings(ABC, MaxLen)}

\* The parsers repeated by many and some.  The last three can succeed
\* without consuming input.
Repeated ==
    {char("a"), or(char("a"), char("b")), chain(char("a"), char("b")),
     empty(Unit), pure(VChar("c")), maybe(char("a")), string(<<>>)}

ManyCalls ==
    {Call("many", many(p), <<p>>, s) : p \in Repeated, s \in Strings(AB, MaxLen)}

SomeCalls ==
    {Call("some", some(p), <<p, many(p)>>, s) :
        p \in Repeated, s \in Strings(AB, MaxLen)}

MaybeCalls ==
    {Call("maybe", maybe(p), <<p>>, s) :
        p \in CharParsers \cup PairParsers, s \in Strings(AB, MaxLen)}

\* The parsers handed to alt; none is the empty(Unit) alt itself ends with.
Alternatives ==
    {char("a"), char("b"), pure(VChar("c")),
     empty(CharacterMismatch(None, Some("c")))}

AltCalls ==
    {Call("alt", alt(ps), ps, s) :
        ps \in UNION {[1..n -> Alternatives] : n \in 0..MaxAlt},
        s \in Strings(AB, MaxLen)}

ListCalls ==
    {Call("list", list(cs), [i \in DOMAIN cs |-> char(cs[i])], s) :
        cs \in Strings(AB, MaxAlt), s \in Strings(ABC, MaxLen)}

\* The character classes of generators.rs.
Classes == {whitespace, lowercase, uppercase, other, letter, digit, alphanum}

\* Inputs that begin with a char of no class, of some classes, and none.
ClassInputs ==
    {<<>>, <<"!">>, <<"!", "a">>, <<"*", "9">>, <<"a">>, <<"Z", "!">>, <<"_">>,
     <<"9">>, <<" ">>}

ClassCalls == {Call("class", p, <<>>, s) : p \in Classes, s \in ClassInputs}

\* lazy(|| p) for a parser p, and the recursive rule typ().
LazyCalls ==
    {Call("lazy", lazy([f |-> "const", self |-> p]), <<p>>, s) :
        p \in CharParsers, s \in Strings(AB, MaxLen)}
    \cup
    {Call("typ", typ, <<>>, s) : s \in Strings(TypChars, MaxLen)}

\* A letter, a digit, a whitespace char and a char that is none of these.
IdChars == {"a", "1", " ", "!"}

\* The inputs of the test identifiers_parse and of its kind, with an
\* upper-case letter, the underscore and the other whitespace chars.
IdExamples ==
    {<<"a", "b", "c", "1", "2", "3", " ", "r", "e", "s", "t">>,
     <<"1", "2", "3", "a", "b", "c">>,
     <<"\n", "_", "Z", "9", "\t", "\r", "!", " ">>,
     <<"\t", "9", "_">>}

IdentifierCalls ==
    {Call("identifier", identifier, <<>>, s) :
        s \in Strings(IdChars, MaxLen) \cup IdExamples}

\* The literals handed to symbol: the empty one, with whitespace inside, at
\* the end and, last, at the start.
SymbolLiterals ==
    {<<>>, <<"a">>, <<"a", "b">>, <<"a", " ">>, <<"a", " ", "b">>, <<"f", "n">>,
     <<" ", "a">>}

SymbolChars == {"a", "b", " "}

\* The inputs of the test symbols_parse and of its kind.
SymbolExamples ==
    {<<"f", "n", " ", "h", "e", "l", "l", "o">>,
     <<"n", "f", " ", "h", "e", "l", "l", "o">>,
     <<" ", " ", "f", "n", " ", " ", "x">>,
     <<"\t", "\n", "f", "n", "\r", "\n", "f", "n", " ">>}

SymbolCalls ==
    {Call("symbol", symbol(lit), <<>>, s) :
        lit \in SymbolLiterals,
        s \in Strings(SymbolChars, MaxLen) \cup SymbolExamples}

\* Source texts that are items each followed by ';', the empty one included.
ItemSources ==
    {<<>>,
     <<"e", "x", "t", " ", "f", "n", " ", "f", "(", ")", "-", ">",
       "t", ";">>}

\* Source texts that are not: no item, and an item followed by something
\* else.
OtherSources ==
    {<<"x">>, <<";">>,
     <<"e", "x", "t", " ", "f", "n", " ", "f", "(", ")", "-", ">",
       "t", ";", "x">>}

\* Every name on the short source texts, one name on the long ones.
ModuleCalls ==
    {Call("module", module(name), <<>>, s) :
        name \in ModuleNames,
        s \in {t \in ItemSources \cup OtherSources : Len(t) <= MaxLen}}
    \cup
    {Call("module", module("m"), <<>>, s) : s \in ItemSources \cup OtherSources}

\* Texts for expression(): numerals, a string literal, and neither.
ExpressionSources ==
    {<<>>, <<"1">>, <<"0", "7", "a">>, <<"\"", "a", "1", "\"", " ">>, <<"\"", "a">>,
     <<"a">>}

ExpressionCalls ==
    {Call("expression", expression, <<>>, s) : s \in ExpressionSources}

Calls ==
    CharCalls \cup OrCalls \cup ChainCalls \cup ManyCalls \cup SomeCalls
    \cup AltCalls \cup ListCalls \cup LazyCalls \cup IdentifierCalls
    \cup SymbolCalls \cup ModuleCalls \cup ExpressionCalls \cup MaybeCalls
    \cup ClassCalls

----------------------------------------------------------------------------
(* The engine as a machine.  Parser::parse runs the closure of the parser;  *)
(* a closure that runs another parser waits for it in a frame of `stack`.   *)

VARIABLES
    call,       \* the call being made
    pc,         \* "idle", "built", "eval", "produce", "ret", "done", "overflow"
    cur,        \* pc \in {"eval", "produce"}: the parser being run and its input
    ret,        \* pc = "ret": the result being returned
    stack,      \* the closures waiting for a parser they run
    log,        \* the finished runs of the watched parsers, in order
    produced,   \* how often a producer was invoked since the call was built
    result      \* pc = "done": the result of the call

vars == <<call, pc, cur, ret, stack, log, produced, result>>

NoCall == Call("none", empty(Unit), <<>>, <<>>)
NoRun == [p |-> empty(Unit), input |-> <<>>]
NoResult == Err(Unit)

Run(p, input) == [p |-> p, input |-> input]

\* The position of p in call.watch, 0 when p is not watched.
Watched(p) ==
    IF \E i \in DOMAIN call.watch : call.watch[i] = p
    THEN CHOOSE i \in DOMAIN call.watch : call.watch[i] = p
    ELSE 0

\* A finished run: which watched parser, how many closures were waiting
\* when it ran, its input and its result.
Entry(w, depth, input, r) == [w |-> w, depth |-> depth, input |-> input, r |-> r]

Logged(w, depth, input, r) ==
    IF w # 0 THEN Append(log, Entry(w, depth, input, r)) ELSE log

Top == stack[Len(stack)]
Pop == SubSeq(stack, 1, Len(stack) - 1)
Push(frame) == Append(stack, frame)

\* The producer invocations that have not returned.
Depth == Cardinality({i \in DOMAIN stack : stack[i].k = "lazy"})

Init ==
    /\ call = NoCall
    /\ pc = "idle"
    /\ cur = NoRun
    /\ ret = NoResult
    /\ stack = <<>>
    /\ log = <<>>
    /\ produced = 0
    /\ result = NoResult

\* A parser is built by its constructor; nothing is run yet.
ConstructFrom(calls) ==
    /\ pc = "idle"
    /\ \E c \in calls : call' = c
    /\ pc' = "built"
    /\ cur' = NoRun
    /\ ret' = NoResult
    /\ stack' = <<>>
    /\ log' = <<>>
    /\ produced' = 0
    /\ result' = NoResult

Construct == ConstructFrom(Calls)

\* Only a repetition is built.
ConstructRepetition == ConstructFrom(ManyCalls \cup SomeCalls)

\* Parser::parse on the parser built: (self.parser)(input.to_string()).
Start ==
    /\ pc = "built"
    /\ pc' = "eval"
    /\ cur' = Run(call.p, call.input)
    /\ UNCHANGED <<call, ret, stack, log, produced, result>>

\* A closure that runs no other parser returns at once.
Return(r) ==
    /\ pc' = "ret"
    /\ ret' = r
    /\ cur' = NoRun
    /\ log' = Logged(Watched(cur.p), Len(stack), cur.input, r)
    /\ UNCHANGED <<call, stack, produced, result>>

\* A closure runs the parser p on input and waits for it in `frame`.
Enter(frame, p, input) ==
    /\ pc' = "eval"
    /\ cur' = Run(p, input)
    /\ stack' = Push(frame)
    /\ UNCHANGED <<call, ret, log, produced, result>>

\* The closure waiting on top of the stack returns r.
Leave(r) ==
    /\ pc' = "ret"
    /\ ret' = r
    /\ cur' = NoRun
    /\ stack' = Pop
    /\ log' = Logged(Top.w, Len(stack) - 1, Top.input, r)
    /\ UNCHANGED <<call, produced, result>>

\* The closure waiting on top of the stack goes on to run p on input.
Continue(frame, p, input) ==
    /\ pc' = "eval"
    /\ cur' = Run(p, input)
    /\ ret' = NoResult
    /\ stack' = Append(Pop, frame)
    /\ UNCHANGED <<call, log, produced, result>>

Char ==
    /\ pc = "eval" /\ cur.p.k = "char"
    /\ Return(run_char(cur.p.c, cur.input))

Pure ==
    /\ pc = "eval" /\ cur.p.k = "pure"
    /\ Return(run_pure(cur.p.v, cur.input))

Empty ==
    /\ pc = "eval" /\ cur.p.k = "empty"
    /\ Return(run_empty(cur.p.e, cur.input))

\* lazy: the closure is entered; the wrapped parser does not exist yet.
LazyEnter ==
    /\ pc = "eval" /\ cur.p.k = "lazy"
    /\ Depth < MaxDepth
    /\ pc' = "produce"
    /\ UNCHANGED <<call, cur, ret, stack, log, produced, result>>

\* lazy: the call stack is exhausted and the process ends.
LazyOverflow ==
    /\ pc = "eval" /\ cur.p.k = "lazy"
    /\ Depth >= MaxDepth
    /\ pc' = "overflow"
    /\ UNCHANGED <<call, cur, ret, stack, log, produced, result>>

\* A lazy that invokes the producer once to look at the parser and once more
\* to run it.
LazyProduceTwice ==
    /\ pc = "produce"
    /\ produced' = produced + 2
    /\ pc' = "eval"
    /\ cur' = Run(Produce(cur.p.producer), cur.input)
    /\ stack' = Push([k |-> "lazy", w |-> Watched(cur.p), input |-> cur.input])
    /\ UNCHANGED <<call, ret, log, result>>

\* lazy: producer() builds the wrapped parser, which is run on the input.
LazyProduce ==
    /\ pc = "produce"
    /\ produced' = produced + 1
    /\ pc' = "eval"
    /\ cur' = Run(Produce(cur.p.producer), cur.input)
    /\ stack' = Push([k |-> "lazy", w |-> Watched(cur.p), input |-> cur.input])
    /\ UNCHANGED <<call, ret, log, result>>

LazyReturn ==
    /\ pc = "ret" /\ stack # <<>> /\ Top.k = "lazy"
    /\ Leave(ret)

MapEnter ==
    /\ pc = "eval" /\ cur.p.k = "map"
    /\ Enter([k |-> "map", f |-> cur.p.f, w |-> Watched(cur.p), input |-> cur.input],
             cur.p.self, cur.input)

MapReturn ==
    /\ pc = "ret" /\ stack # <<>> /\ Top.k = "map"
    /\ Leave(map_result(Top.f, ret))

ChainEnter ==
    /\ pc = "eval" /\ cur.p.k = "chain"
    /\ Enter([k |-> "chain", next |-> cur.p.other, w |-> Watched(cur.p),
              input |-> cur.input],
             cur.p.self, cur.input)

\* chain: self has returned; and_then runs other, or the error passes.
ChainSelfReturn ==
    /\ pc = "ret" /\ stack # <<>> /\ Top.k = "chain"
    /\ IF IsOk(ret)
       THEN Continue([k |-> "chain_b", result_a |-> ret.value, w |-> Top.w,
                      input |-> Top.input],
                     Top.next, chain_input(Top.input, ret))
       ELSE Leave(ret)

ChainOtherReturn ==
    /\ pc = "ret" /\ stack # <<>> /\ Top.k = "chain_b"
    /\ Leave(chain_result(Top.result_a, ret))

OrEnter ==
    /\ pc = "eval" /\ cur.p.k = "or"
    /\ Enter([k |-> "or", next |-> cur.p.other, w |-> Watched(cur.p),
              input |-> cur.input],
             cur.p.self, cur.input)

\* or: self has returned; or_else runs other, or the success passes.
OrSelfReturn ==
    /\ pc = "ret" /\ stack # <<>> /\ Top.k = "or"
    /\ IF IsErr(ret)
       THEN Continue([k |-> "or_b", parse_error_a |-> ret.err, w |-> Top.w,
                      input |-> Top.input],
                     Top.next, or_input(Top.input, ret))
       ELSE Leave(ret)

OrOtherReturn ==
    /\ pc = "ret" /\ stack # <<>> /\ Top.k = "or_b"
    /\ Leave(or_result(Top.parse_error_a, ret))

NumLiteralEnter ==
    /\ pc = "eval" /\ cur.p.k = "num_literal"
    /\ Enter([k |-> "num_literal", w |-> Watched(cur.p), input |-> cur.input],
             num_literal_digits, cur.input)

NumLiteralReturn ==
    /\ pc = "ret" /\ stack # <<>> /\ Top.k = "num_literal"
    /\ Leave(num_literal_result(ret))

\* The closure of the parser built has returned to the caller of parse.
Finish ==
    /\ pc = "ret" /\ stack = <<>>
    /\ pc' = "done"
    /\ result' = ret
    /\ ret' = NoResult
    /\ UNCHANGED <<call, cur, stack, log, produced>>

\* The caller drops the parser and the result; another call may follow.
Drop ==
    /\ pc = "done"
    /\ call' = NoCall
    /\ pc' = "idle"
    /\ result' = NoResult
    /\ log' = <<>>
    /\ produced' = 0
    /\ UNCHANGED <<cur, ret, stack>>

\* The steps of the closures of src/parser.
EngineStep ==
    \/ Start \/ Char \/ Pure \/ Empty
    \/ LazyEnter \/ LazyOverflow \/ LazyProduce \/ LazyReturn
    \/ MapEnter \/ MapReturn
    \/ ChainEnter \/ ChainSelfReturn \/ ChainOtherReturn
    \/ OrEnter \/ OrSelfReturn \/ OrOtherReturn
    \/ Finish

Step == EngineStep \/ NumLiteralEnter \/ NumLiteralReturn

Next == Construct \/ Step \/ Drop

Spec == Init /\ [][Next]_vars

\* The calls of many and some alone, which run no closure of the grammar.
RepetitionNext == ConstructRepetition \/ EngineStep \/ Drop

\* A call that has been built is started and runs until it returns or the
\* stack is exhausted: nothing suspends a parse.
FairSpec == Init /\ [][RepetitionNext]_vars /\ WF_vars(EngineStep)

----------------------------------------------------------------------------
(* Properties.                                                              *)

Done(op) == pc = "done" /\ call.op = op

\* The finished runs of the parsers the closure of the call ran itself:
\* exactly one closure, that of the call, was waiting for them.
OperandRuns == SelectSeq(log, LAMBDA e : e.depth = 1)

\* The finished runs of the watched parser call.watch[i], wherever it ran.
RunsOf(i) == SelectSeq(log, LAMBDA e : call.watch[e.w] = call.watch[i])

IsRunOf(e, i, input) == call.watch[e.w] = call.watch[i] /\ e.input = input

\* The order on ParseError as a rank: Unit is lowest, a CharacterMismatch
\* ranks by expected and then by found, an absent char below a present one.
OptionRank(o) == IF o = None THEN 0 ELSE 1 + CodePoint(o[1])
ErrorRank(e) ==
    IF e.t = "Unit" THEN 0
    ELSE 1 + 1000 * OptionRank(e.expected) + OptionRank(e.found)

\* C1: or(p, q) is left-biased and backtracks: p is run on s and its success
\* is the result; if p fails, q is run on the same s, and q's success is the
\* result.  or(chain(char a, char b), chain(char a, char c)) on "ac" gives
\* (('a','c'), "").
C1_OrLeftBiasedBacktracks ==
    Done("or") =>
        LET runs == OperandRuns
        IN  /\ Len(runs) >= 1
            /\ IsRunOf(runs[1], 1, call.input)
            /\ IsOk(runs[1].r) => Len(runs) = 1 /\ result = runs[1].r
            /\ IsErr(runs[1].r) =>
                   /\ Len(runs) = 2
                   /\ IsRunOf(runs[2], 2, call.input)
                   /\ IsOk(runs[2].r) => result = runs[2].r
            /\ (/\ call.p = or(chain(char("a"), char("b")), chain(char("a"), char("c")))
                /\ call.input = <<"a", "c">>)
               => result = Ok(VPair(VChar("a"), VChar("c")), <<>>)

C1_Witness ==
    /\ Done("or")
    /\ call.p = or(chain(char("a"), char("b")), chain(char("a"), char("c")))
    /\ call.input = <<"a", "c">>
    /\ IsOk(result)
    /\ Len(OperandRuns) = 2

\* C2: when both branches of or(p, q) fail, with eA and eB, the call fails
\* with the greater of eA and eB in the order on ParseError;
\* or(empty(Unit), char a) on "b" reports the CharacterMismatch.
C2_OrReportsGreaterError ==
    Done("or") =>
        LET runs == OperandRuns
        IN  /\ (Len(runs) = 2 /\ IsErr(runs[1].r) /\ IsErr(runs[2].r)) =>
                   /\ IsErr(result)
                   /\ result.err \in {runs[1].r.err, runs[2].r.err}
                   /\ ErrorRank(result.err) >= ErrorRank(runs[1].r.err)
                   /\ ErrorRank(result.err) >= ErrorRank(runs[2].r.err)
            /\ (call.p = or(empty(Unit), char("a")) /\ call.input = <<"b">>)
               => result = Err(CharacterMismatch(Some("a"), Some("b")))

C2_Witness ==
    /\ Done("or")
    /\ call.p = or(char("a"), empty(Unit))
    /\ call.input = <<"b">>
    /\ result = Err(CharacterMismatch(Some("a"), Some("b")))

\* C3: chain(p, q) runs p on s and q on the remainder p returned; it
\* succeeds with ((a, b), r2) exactly when both do; p's failure is the
\* result and q is not run; q's failure is the result; a failure carries no
\* remainder.
C3_ChainSequences ==
    Done("chain") =>
        LET runs == OperandRuns
        IN  /\ Len(runs) >= 1
            /\ IsRunOf(runs[1], 1, call.input)
            /\ IsErr(runs[1].r) => Len(runs) = 1 /\ result = runs[1].r
            /\ IsOk(runs[1].r) =>
                   /\ Len(runs) = 2
                   /\ IsRunOf(runs[2], 2, runs[1].r.rest)
                   /\ IsOk(runs[2].r) =>
                          result = Ok(VPair(runs[1].r.value, runs[2].r.value),
                                      runs[2].r.rest)
                   /\ IsErr(runs[2].r) => result = runs[2].r
            /\ IsErr(result) => DOMAIN result = {"t", "err"}

C3_Witness ==
    /\ Done("chain")
    /\ call.p = chain(char("a"), char("b"))
    /\ call.input = <<"a", "b", "c">>
    /\ result = Ok(VPair(VChar("a"), VChar("b")), <<"c">>)

\* C7: char(c) on s beginning with c gives (c, s without its first char);
\* on any other s it fails with CharacterMismatch{expected: Some(c),
\* found: the first char of s, or none when s is empty}.
C7_CharMatchesOne ==
    Done("char") =>
        LET c == call.p.c
            s == call.input
        IN  /\ (s # <<>> /\ s[1] = c) =>
                   /\ IsOk(result)
                   /\ result.value = VChar(c)
                   /\ <<c>> \o result.rest = s
            /\ (s # <<>> /\ s[1] # c) =>
                   result = Err(CharacterMismatch(Some(c), Some(s[1])))
            /\ s = <<>> => result = Err(CharacterMismatch(Some(c), None))

C7_Witness ==
    /\ Done("char")
    /\ call.p = char("a")
    /\ call.input = <<"a", "b", "c">>
    /\ result = Ok(VChar("a"), <<"b", "c">>)

\* A parser that cannot succeed without consuming a char, by its structure.
RECURSIVE Productive(_)
Productive(p) ==
    CASE p.k = "char" -> TRUE
      [] p.k = "empty" -> TRUE
      [] p.k = "pure" -> FALSE
      [] p.k = "lazy" -> FALSE
      [] p.k = "map" -> Productive(p.self)
      [] p.k = "chain" -> Productive(p.self) \/ Productive(p.other)
      [] p.k = "or" -> Productive(p.self) /\ Productive(p.other)

\* The finished runs of the parsers run with d closures waiting.
RunsAt(d) == SelectSeq(log, LAMBDA e : e.depth = d)

Successes(runs) == Len(SelectSeq(runs, LAMBDA e : IsOk(e.r)))

\* C4: many(p) is total for a p that cannot succeed without consuming a
\* char: the call returns, with a success, after at most length(s)
\* successful runs of p.
C4_ManyTotal ==
    [](  (pc = "built" /\ call.op = "many" /\ Productive(call.watch[1]))
      => <>(/\ pc = "done"
            /\ IsOk(result)
            /\ Successes(RunsOf(1)) <= Len(call.input)))

C4_Witness ==
    /\ Done("many")
    /\ call.p = many(or(char("a"), char("b")))
    /\ Len(call.input) = MaxLen
    /\ Successes(RunsOf(1)) = MaxLen
    /\ IsOk(result)

\* C5: many(p) is greedy zero-or-more for such a p: its result is
\* ([v1..vn], r), the vi being the results of running p again and again,
\* first on s and then on the remainder of the run before, until p first
\* fails, on r; when p fails on s itself the result is ([], s).
C5_ManyGreedy ==
    (Done("many") /\ Productive(call.watch[1])) =>
        LET runs == RunsOf(1)
            n == Len(runs) - 1
        IN  /\ n >= 0
            /\ runs[1].input = call.input
            /\ \A i \in 1..n :
                   IsOk(runs[i].r) /\ runs[i + 1].input = runs[i].r.rest
            /\ IsErr(runs[n + 1].r)
            /\ result = Ok(VVec([i \in 1..n |-> runs[i].r.value]), runs[n + 1].input)
            /\ IsErr(runs[1].r) => result = Ok(VVec(<<>>), call.input)
            /\ (call.p = many(char("a")) /\ call.input = <<"a", "a", "b">>)
               => result = Ok(VVec(<<VChar("a"), VChar("a")>>), <<"b">>)

C5_Witness ==
    /\ Done("many")
    /\ call.p = many(char("a"))
    /\ call.input = <<"a", "a", "b">>
    /\ result = Ok(VVec(<<VChar("a"), VChar("a")>>), <<"b">>)

\* C6: some(p) is one-or-more for such a p: it fails exactly when p fails on
\* s, with p's error; otherwise its result is p's first result followed by
\* the results of many(p) on the remainder, and the vector is not empty.
C6_SomeOneOrMore ==
    (Done("some") /\ Productive(call.watch[1])) =>
        LET runs == RunsAt(2)
        IN  /\ Len(runs) >= 1
            /\ IsRunOf(runs[1], 1, call.input)
            /\ IsErr(result) <=> IsErr(runs[1].r)
            /\ IsErr(runs[1].r) => result = runs[1].r
            /\ IsOk(runs[1].r) =>
                   /\ Len(runs) = 2
                   /\ IsRunOf(runs[2], 2, runs[1].r.rest)
                   /\ IsOk(runs[2].r)
                   /\ result = Ok(VVec(<<runs[1].r.value>> \o runs[2].r.value[2]),
                                  runs[2].r.rest)
                   /\ Len(result.value[2]) >= 1
            /\ (call.p = some(char("a")) /\ call.input = <<"b", "b">>)
               => result = Err(CharacterMismatch(Some("a"), Some("b")))

C6_Witness ==
    /\ Done("some")
    /\ call.p = some(char("a"))
    /\ call.input = <<"b", "b">>
    /\ IsErr(result)

\* C8: alt(parsers) tries the parsers in order on the same input: its result
\* is that of the first parser that succeeds, the later ones are not run;
\* when none succeeds it fails; alt of no parser fails with Unit.  list(chars)
\* is alt of the char parsers.
C8_AltFirstSuccess ==
    (Done("alt") \/ Done("list")) =>
        LET ps == call.watch
            n == Len(ps)
            Failed(j) == /\ Len(RunsAt(j)) = 1
                         /\ IsRunOf(RunsAt(j)[1], j, call.input)
                         /\ IsErr(RunsAt(j)[1].r)
            Succeeded(j) == /\ Len(RunsAt(j)) = 1
                            /\ IsRunOf(RunsAt(j)[1], j, call.input)
                            /\ IsOk(RunsAt(j)[1].r)
        IN  /\ \A i \in 1..n :
                   (\A j \in 1..(i - 1) : Failed(j)) =>
                       /\ Failed(i) \/ Succeeded(i)
                       /\ Succeeded(i) =>
                              /\ result = RunsAt(i)[1].r
                              /\ \A j \in (i + 1)..n : RunsAt(j) = <<>>
            /\ (\A j \in 1..n : Failed(j)) => IsErr(result)
            /\ n = 0 => result = Err(Unit)
            /\ Done("list") => call.p = alt(ps)

C8_Witness ==
    /\ Done("alt")
    /\ call.watch = <<char("a"), pure(VChar("c"))>>
    /\ call.input = <<"b", "a">>
    /\ result = Ok(VChar("c"), <<"b", "a">>)

\* C9: lazy(factory) defers construction: building it does not invoke
\* factory and looks at no input, also for the self-referential typ(); a run
\* of the closure invokes factory exactly once, after the run has started,
\* and lazy(|| p).parse(s) is p.parse(s).
C9_LazyDefers ==
    /\ [](pc = "built" => produced = 0 /\ log = <<>>)
    /\ [][pc = "produce" => produced' = produced + 1]_vars
    /\ [][produced' # produced =>
            pc = "produce" \/ (produced' = 0 /\ pc \in {"idle", "done"})]_vars
    /\ [](Done("lazy") =>
            /\ produced = 1
            /\ Len(OperandRuns) = 1
            /\ IsRunOf(OperandRuns[1], 1, call.input)
            /\ result = OperandRuns[1].r)

C9_Witness ==
    /\ Done("typ")
    /\ call.input = <<"*", "a">>
    /\ result = Ok(<<"Pointer", <<"Atomic", VString(<<"a">>)>>>>, <<>>)
    /\ produced >= 2

\* C10 as stated: empty(e) is the identity of or for every e: or(empty(e), p)
\* and or(p, empty(e)) give p's result, the error included.
C10_EmptyIsIdentity ==
    Done("or") =>
        LET runs == OperandRuns
        IN  /\ call.p.self.k = "empty" => result = runs[2].r
            /\ (call.p.other.k = "empty" /\ call.p.self.k # "empty") =>
                   result = runs[1].r

\* C10 amended: or(empty(e), p) and or(p, empty(e)) give p's result whenever
\* p succeeds or fails with an error that is not below e, as it always is
\* for e = Unit; when p fails with an error below e, both fail with e.
C10_EmptyIsIdentityUpToOrder ==
    Done("or") =>
        LET runs == OperandRuns
            Holds(e, rp) ==
                IF IsOk(rp) \/ ErrorRank(rp.err) >= ErrorRank(e)
                THEN result = rp
                ELSE result = Err(e)
        IN  /\ call.p.self.k = "empty" =>
                   /\ Len(runs) = 2
                   /\ IsRunOf(runs[2], 2, call.input)
                   /\ Holds(call.p.self.e, runs[2].r)
            /\ (call.p.other.k = "empty" /\ call.p.self.k # "empty") =>
                   /\ IsRunOf(runs[1], 1, call.input)
                   /\ Holds(call.p.other.e, runs[1].r)

C10_Witness ==
    /\ Done("or")
    /\ call.p = or(char("a"), empty(CharacterMismatch(Some("c"), None)))
    /\ call.input = <<"b">>
    /\ result = Err(CharacterMismatch(Some("c"), None))

IsWhitespace(c) == c \in {" ", "\n", "\t", "\r"}
IsLetter(c) == c \in Range(Lower) \cup Range(Upper) \cup {"_"}
IsAlphanumeric(c) == IsLetter(c) \/ c \in Range(Digits)

\* The length of the longest prefix of s whose chars all satisfy P.
RunLen(s, P(_)) ==
    CHOOSE n \in 0..Len(s) :
        /\ \A i \in 1..n : P(s[i])
        /\ n = Len(s) \/ ~P(s[n + 1])

\* s without its first n chars.
From(s, n) == SubSeq(s, n + 1, Len(s))

\* C11: identifier() on w1 . t . w2 . rest, w1 and w2 the whitespace runs,
\* t one letter (a-z, A-Z or '_') followed by the longest run of
\* alphanumerics, rest not starting with whitespace, gives (t, rest); it
\* fails whenever the first char after the leading whitespace is not a letter
\* or '_'.  "abc123 rest" gives ("abc123", "rest") and "123abc" fails.
C11_IdentifierToken ==
    Done("identifier") =>
        LET s == call.input
            a == From(s, RunLen(s, IsWhitespace))
            n == RunLen(a, IsAlphanumeric)
            b == From(a, n)
            rest == From(b, RunLen(b, IsWhitespace))
        IN  /\ IF a # <<>> /\ IsLetter(a[1])
               THEN result = Ok(VString(SubSeq(a, 1, n)), rest)
               ELSE IsErr(result)
            /\ s = <<"a", "b", "c", "1", "2", "3", " ", "r", "e", "s", "t">> =>
                   result = Ok(VString(<<"a", "b", "c", "1", "2", "3">>),
                               <<"r", "e", "s", "t">>)
            /\ s = <<"1", "2", "3", "a", "b", "c">> => IsErr(result)

C11_Witness ==
    /\ Done("identifier")
    /\ call.input = <<"\n", "_", "Z", "9", "\t", "\r", "!", " ">>
    /\ result = Ok(VString(<<"_", "Z", "9">>), <<"!", " ">>)

\* C12: symbol(lit) is strip(string(lit)).  For lit not starting with
\* whitespace, symbol(lit) on w1 . lit . w2 . rest, w1 and w2 the whitespace
\* runs and rest not starting with whitespace, gives (lit, rest); a
\* successful remainder never starts with whitespace; symbol(lit) fails when
\* the input after the leading whitespace does not begin with lit.
C12_SymbolStripsBothSides ==
    \A lit \in SymbolLiterals :
        (Done("symbol") /\ call.p = symbol(lit)) =>
            LET s == call.input
                a == From(s, RunLen(s, IsWhitespace))
                HasLit == Len(a) >= Len(lit) /\ SubSeq(a, 1, Len(lit)) = lit
                b == From(a, Len(lit))
                rest == From(b, RunLen(b, IsWhitespace))
            IN  /\ call.p = strip(string(lit))
                /\ ((lit = <<>> \/ ~IsWhitespace(lit[1])) /\ HasLit) =>
                       result = Ok(VString(lit), rest)
                /\ ~HasLit => IsErr(result)
                /\ IsOk(result) =>
                       result.rest = <<>> \/ ~IsWhitespace(result.rest[1])
                /\ (lit = <<"f", "n">> /\ s = <<" ", " ", "f", "n", " ", " ", "x">>)
                   => result = Ok(VString(<<"f", "n">>), <<"x">>)

C12_Witness ==
    /\ Done("symbol")
    /\ call.p = symbol(<<"f", "n">>)
    /\ call.input = <<"\t", "\n", "f", "n", "\r", "\n", "f", "n", " ">>
    /\ result = Ok(VString(<<"f", "n">>), <<"f", "n", " ">>)

\* C13: the entry point of the grammar layer surfaces a terminal error: for
\* every module name and source text that is not entirely a sequence of
\* items each followed by ';', module(name).parse(src) is a ParseError, not
\* a success with the items before and the text not parsed as remainder.
C13_ModuleSurfacesError ==
    (Done("module") /\ call.input \notin ItemSources) => IsErr(result)

\* p succeeds on s without consuming a char, for the p of Repeated.
SucceedsEmpty(p, s) ==
    \/ p.k = "pure"
    \/ p = maybe(char("a")) /\ (s = <<>> \/ s[1] # "a")

\* The call is a repetition of a p that succeeded on s without consuming.
Stalled ==
    /\ call.op \in {"many", "some"}
    /\ RunsOf(1) # <<>>
    /\ IsOk(RunsOf(1)[1].r)
    /\ RunsOf(1)[1].r.rest = call.input

\* C14: many and some have no productivity guard: when p succeeds on s
\* without consuming a char (pure(v), maybe(q), string("")), many(p) and
\* some(p) on s never return; every iteration runs p on the same s again, each
\* one deeper in the recursion than the one before, until the stack is
\* exhausted, however deep the stack is.
C14_RepetitionDiverges ==
    /\ [](Stalled =>
            LET runs == RunsOf(1)
            IN  /\ pc # "done"
                /\ \A i \in DOMAIN runs :
                       /\ runs[i].input = call.input
                       /\ runs[i].r = runs[1].r
                       /\ i > 1 => runs[i].depth > runs[i - 1].depth)
    /\ [](  (/\ pc = "built" /\ call.op \in {"many", "some"}
             /\ SucceedsEmpty(call.watch[1], call.input))
         => <>(pc = "overflow" /\ Stalled /\ Depth = MaxDepth
               /\ Len(RunsOf(1)) >= MaxDepth))
    /\ [](pc = "overflow" => [](pc = "overflow"))

C14_Witness ==
    /\ pc = "overflow"
    /\ call.p = some(maybe(char("a")))
    /\ call.input = <<"b", "a">>
    /\ Depth = MaxDepth
    /\ Len(RunsOf(1)) = MaxDepth + 2
    /\ \A i \in DOMAIN RunsOf(1) : RunsOf(1)[i].r = Ok(VNone, <<"b", "a">>)

\* r is what is left of s when chars are taken from its front.
IsSuffix(r, s) ==
    /\ Len(r) <= Len(s)
    /\ r = SubSeq(s, Len(s) - Len(r) + 1, Len(s))

\* C15: input is consumed from the front only: whenever a closure returns a
\* success, of the call or of any parser run inside it, the remainder is a
\* suffix of the input the closure was given; pure, maybe(p) when p fails
\* and many(p) with no match return the input itself.
C15_ConsumesFromFront ==
    /\ [][(pc' = "ret" /\ IsOk(ret')) =>
             IsSuffix(ret'.rest, IF pc = "eval" THEN cur.input ELSE Top.input)]_vars
    /\ [](pc = "done" /\ IsOk(result) => IsSuffix(result.rest, call.input))
    /\ [][(pc = "eval" /\ cur.p.k = "pure") => ret' = Ok(cur.p.v, cur.input)]_vars
    /\ [](Done("maybe") =>
            /\ Len(RunsOf(1)) = 1
            /\ RunsOf(1)[1].input = call.input
            /\ IsErr(RunsOf(1)[1].r) => result = Ok(VNone, call.input)
            /\ IsOk(RunsOf(1)[1].r) =>
                   result = Ok(VSome(RunsOf(1)[1].r.value), RunsOf(1)[1].r.rest))
    /\ []((Done("many") /\ IsOk(result) /\ result.value = VVec(<<>>)) =>
            result.rest = call.input)

C15_Witness ==
    /\ Done("maybe")
    /\ call.p = maybe(chain(char("a"), char("b")))
    /\ call.input = <<"a", "a", "b">>
    /\ IsErr(RunsOf(1)[1].r)
    /\ result = Ok(VNone, <<"a", "a", "b">>)

\* The greatest char of a non-empty set, by code point.
MaxChar(S) == CHOOSE c \in S : \A d \in S : CodePoint(d) <= CodePoint(c)

\* The first char of s, if any.
First(s) == IF s = <<>> THEN None ELSE Some(s[1])

\* The chars a class accepts.
ClassChars(p) ==
    CASE p = whitespace -> {" ", "\n", "\t", "\r"}
      [] p = lowercase -> Range(Lower)
      [] p = uppercase -> Range(Upper)
      [] p = other -> {"_"}
      [] p = letter -> Range(Lower) \cup Range(Upper) \cup {"_"}
      [] p = digit -> Range(Digits)
      [] p = alphanum ->
             Range(Lower) \cup Range(Upper) \cup {"_"} \cup Range(Digits)

\* C16: when every alternative of list(chars), chars not empty, fails on s,
\* the error is CharacterMismatch{expected: Some(m), found: the first char of
\* s or none}, m the greatest char of chars by code point, whatever the order
\* of chars; so it is for the classes built from lists: on "!" lowercase(),
\* letter() and alphanum() expect 'z' and digit() expects '9'.
C16_ListReportsGreatestChar ==
    /\ Done("list") =>
           LET chars == {call.watch[i].c : i \in DOMAIN call.watch}
               s == call.input
           IN  (chars # {} /\ (s = <<>> \/ s[1] \notin chars)) =>
                   /\ \A i \in DOMAIN call.watch :
                          Len(RunsOf(i)) >= 1 /\ IsErr(RunsOf(i)[1].r)
                   /\ result = Err(CharacterMismatch(Some(MaxChar(chars)), First(s)))
    /\ Done("class") =>
           LET chars == ClassChars(call.p)
               s == call.input
           IN  /\ (s = <<>> \/ s[1] \notin chars) =>
                      result = Err(CharacterMismatch(Some(MaxChar(chars)), First(s)))
               /\ (s = <<"!">> /\ call.p \in {lowercase, letter, alphanum}) =>
                      result = Err(CharacterMismatch(Some("z"), Some("!")))
               /\ (s = <<"!">> /\ call.p = digit) =>
                      result = Err(CharacterMismatch(Some("9"), Some("!")))

C16_Witness ==
    /\ Done("list")
    /\ call.p = list(<<"b", "a">>)
    /\ call.input = <<"c", "a">>
    /\ result = Err(CharacterMismatch(Some("b"), Some("c")))

====
